---- MODULE Spec2Model ----
(***************************************************************************)
(* Model of the real-time client of traderx-app: the WebSocketService      *)
(* singleton (services/websocket.ts), the sockets it opens, the timers it  *)
(* sets and the components that subscribe through it, and the Chart       *)
(* component with its useChartData hook (hooks/useChartData.ts).           *)
(*                                                                         *)
(* The service runs on one event loop, so every handler (a socket event, a *)
(* timer callback, a public method called by a component) is one atomic    *)
(* action.  The methods of the class are operators from a world record to  *)
(* a world record, composed the way the code calls them; an action reads   *)
(* the variables into a record (World), applies the handler and writes the *)
(* result back (Commit).                                                   *)
(***************************************************************************)
EXTENDS Integers, Sequences, FiniteSets, Bags, TLC

VARIABLES
    ws,                 \* this.ws: "null", or the readyState of the socket it refers to
    reconnectAttempts,  \* this.reconnectAttempts
    isConnecting,       \* this.isConnecting
    callbacks,          \* this.callbacks: message kind -> array of callbacks
    subscribedSymbols,  \* this.subscribedSymbols
    pingInterval,       \* this.pingInterval: TRUE when it holds an interval id
    others,             \* readyStates of sockets this.ws no longer refers to, handlers still attached
    wire,               \* bag of the frames transmitted on the socket this.ws refers to
    unanswered,         \* pings transmitted on that socket since the last pong came back
    timers,             \* bag of the delays of the pending setTimeout(connect) timers
    intervals,          \* bag of the periods of the live setInterval(ping) timers
    warned,             \* send() has refused a frame since the current socket was created
    thrown,             \* an exception has escaped a handler
    lastFrame,          \* what onmessage made of the last frame: its kind, "unparsable", or "none"
    delivered,          \* the callbacks handleMessage invoked for the last frame, in order
    atReceipt,          \* the callbacks registered for the last frame's kind when it arrived
    threwBefore,        \* a listener threw during the delivery of a frame before the last one
    consumers,          \* component -> the symbol of its subscribeToStockUpdates, or "none"
    handles,            \* the unsubscribe functions returned by subscribe(), with their call counts
    offline,            \* symbols whose present subscription was requested while the socket was not open
    everOpen,           \* some socket has reached OPEN
    disconnected,       \* disconnect() has been called
    chart,              \* the Chart component: "none", "mounted" or "unmounted"
    chartSymbol,        \* its symbol prop
    chartTimeframe,     \* its timeframe prop
    data,               \* useChartData: the data state, the held series of candles
    loading,            \* useChartData: the loading state
    error,              \* useChartData: the error state, "null" or a message
    chartInfo,          \* useChartData: dataSource of the chartInfo state, or "null"
    intervalRef,        \* useChartData: TRUE when intervalRef holds a live interval
    requests,           \* the fetchData calls suspended at their await, oldest first
    candlestickSeries,  \* the bars of the candlestick series of the chart widget
    ticks,              \* the prices the Chart's listener handled since the series was last set or emptied
    tickTime,           \* the timestamp of the last of them, 0 when there is none
    applied,            \* symbol and timeframe of the response the data state came from
    outcome             \* how the fetchData call that settled last ended: "none", "resolved",
                        \* "failed" (initial fetch) or "refresh_failed"

vars == <<ws, reconnectAttempts, isConnecting, callbacks, subscribedSymbols,
          pingInterval, others, wire, unanswered, timers, intervals, warned, thrown,
          lastFrame, delivered, atReceipt, threwBefore,
          consumers, handles, offline, everOpen, disconnected,
          chart, chartSymbol, chartTimeframe, data, loading, error, chartInfo,
          intervalRef, requests, candlestickSeries, ticks, tickTime, applied, outcome>>

\* the state of the Chart component and of its useChartData hook
chartVars == <<chart, chartSymbol, chartTimeframe, data, loading, error, chartInfo,
               intervalRef, requests, candlestickSeries, ticks, tickTime, applied, outcome>>

\* the state of the WebSocketService, its sockets and its subscribers
serviceVars == <<ws, reconnectAttempts, isConnecting, callbacks, subscribedSymbols,
                 pingInterval, others, wire, unanswered, timers, intervals, warned,
                 thrown, lastFrame, delivered, atReceipt, threwBefore,
                 consumers, handles, offline, everOpen, disconnected>>

----------------------------------------------------------------------------
(* Program constants *)

maxReconnectAttempts == 5
reconnectDelay == 1000
pingPeriod == 30000

(* Bounds of the model *)

MaxWire == 3        \* frames kept per socket; a handler that would transmit more is not taken
MaxHandles == 2     \* unsubscribe functions handed out by subscribe()
MaxCalls == 2       \* calls recorded per unsubscribe function
MaxRequests == 2    \* fetchData calls in flight; a call that would exceed it is not taken
MaxTicks == 2       \* ticks recorded since the series was last set

Symbols == {"NIFTY", "BANKNIFTY"}
Consumers == {"chart", "hook"}
Kinds == {"price_update", "signal_update"}
Listeners == {"f", "g", "h"}
SelfRemoving == {"g"}   \* listeners that call their own unsubscribe function when invoked
Throwing == {"h"}       \* listeners that throw when invoked

subscribeFrame(symbol) == [type |-> "subscribe", symbol |-> symbol]
unsubscribeFrame(symbol) == [type |-> "unsubscribe", symbol |-> symbol]
pingFrame == [type |-> "ping", symbol |-> ""]

----------------------------------------------------------------------------
(* The world the handlers act on *)

World ==
    [ws |-> ws, reconnectAttempts |-> reconnectAttempts, isConnecting |-> isConnecting,
     callbacks |-> callbacks, subscribedSymbols |-> subscribedSymbols,
     pingInterval |-> pingInterval, others |-> others, wire |-> wire,
     unanswered |-> unanswered, timers |-> timers, intervals |-> intervals,
     warned |-> warned, thrown |-> thrown,
     lastFrame |-> lastFrame, delivered |-> delivered, atReceipt |-> atReceipt,
     threwBefore |-> threwBefore]

CommitService(w) ==
    /\ ws' = w.ws
    /\ reconnectAttempts' = w.reconnectAttempts
    /\ isConnecting' = w.isConnecting
    /\ callbacks' = w.callbacks
    /\ subscribedSymbols' = w.subscribedSymbols
    /\ pingInterval' = w.pingInterval
    /\ others' = w.others
    /\ wire' = w.wire
    /\ unanswered' = w.unanswered
    /\ timers' = w.timers
    /\ intervals' = w.intervals
    /\ warned' = w.warned
    /\ thrown' = w.thrown
    /\ lastFrame' = w.lastFrame
    /\ delivered' = w.delivered
    /\ atReceipt' = w.atReceipt
    /\ threwBefore' = w.threwBefore
    /\ BagCardinality(w.wire) <= MaxWire

\* a step of the service alone: the Chart and its hook are not involved
Commit(w) ==
    /\ CommitService(w)
    /\ UNCHANGED chartVars

Add(bag, e) == bag (+) SetToBag({e})
Remove(bag, e) == bag (-) SetToBag({e})

RemoveAt(s, i) == SubSeq(s, 1, i - 1) \o SubSeq(s, i + 1, Len(s))

(* Array.prototype.indexOf: the first index holding x, 0 for "not found" *)
indexOf(s, x) ==
    IF \E i \in 1..Len(s) : s[i] = x
    THEN CHOOSE i \in 1..Len(s) : s[i] = x /\ \A j \in 1..(i - 1) : s[j] # x
    ELSE 0

----------------------------------------------------------------------------
(* WebSocketService *)

\* send without the readyState test: WebSocket.send throws InvalidStateError on
\* a socket that is still CONNECTING and discards the frame on a closed one
send_NoReadyStateTest(w, message) ==
    IF w.ws = "null" THEN [w EXCEPT !.warned = TRUE]
    ELSE IF w.ws = "CONNECTING" THEN [w EXCEPT !.thrown = TRUE]
    ELSE IF w.ws = "OPEN" THEN [w EXCEPT !.wire = Add(@, message)]
    ELSE w

\* send: transmit on an open socket, warn and drop otherwise
send(w, message) ==
    IF w.ws = "OPEN"
    THEN [w EXCEPT !.wire = Add(@, message),
                   !.unanswered = IF message.type = "ping" THEN @ + 1 ELSE @]
    ELSE [w EXCEPT !.warned = TRUE]

\* stopPingInterval that drops the id without clearInterval
stopPingInterval_NoClear(w) ==
    IF w.pingInterval THEN [w EXCEPT !.pingInterval = FALSE] ELSE w

stopPingInterval(w) ==
    IF w.pingInterval
    THEN [w EXCEPT !.pingInterval = FALSE, !.intervals = Remove(@, pingPeriod)]
    ELSE w

startPingInterval(w) ==
    [stopPingInterval(w) EXCEPT !.pingInterval = TRUE, !.intervals = Add(@, pingPeriod)]

\* handleReconnect with the exponent off by one
handleReconnect_Exponent(w) ==
    IF w.reconnectAttempts >= maxReconnectAttempts
    THEN w
    ELSE LET n == w.reconnectAttempts + 1
             delay == reconnectDelay * 2 ^ n
         IN  [w EXCEPT !.reconnectAttempts = n, !.timers = Add(@, delay)]

\* handleReconnect that counts the attempt before it tests the budget
handleReconnect_CountsFirst(w) ==
    LET n == w.reconnectAttempts + 1
        delay == reconnectDelay * 2 ^ (n - 1)
    IN  IF w.reconnectAttempts >= maxReconnectAttempts
        THEN [w EXCEPT !.reconnectAttempts = n]
        ELSE [w EXCEPT !.reconnectAttempts = n, !.timers = Add(@, delay)]

handleReconnect(w) ==
    IF w.reconnectAttempts >= maxReconnectAttempts
    THEN w
    ELSE LET n == w.reconnectAttempts + 1
             delay == reconnectDelay * 2 ^ (n - 1)
         IN  [w EXCEPT !.reconnectAttempts = n, !.timers = Add(@, delay)]

\* connect: `throws` is whether the WebSocket constructor throws.  A socket
\* this.ws referred to that can still deliver events keeps its handlers.
connect(w, throws) ==
    IF w.isConnecting
    THEN w
    ELSE LET w1 == [w EXCEPT !.isConnecting = TRUE]
         IN  IF throws
             THEN handleReconnect(w1)
             ELSE [w1 EXCEPT !.ws = "CONNECTING",
                             !.others = IF w.ws \in {"CONNECTING", "OPEN"}
                                        THEN Append(@, w.ws) ELSE @,
                             !.wire = EmptyBag,
                             !.unanswered = 0,
                             !.warned = FALSE]

subscribeToSymbol(w, symbol) ==
    IF symbol \in w.subscribedSymbols
    THEN w
    ELSE send([w EXCEPT !.subscribedSymbols = @ \cup {symbol}], subscribeFrame(symbol))

unsubscribeFromSymbol(w, symbol) ==
    IF symbol \notin w.subscribedSymbols
    THEN w
    ELSE send([w EXCEPT !.subscribedSymbols = @ \ {symbol}], unsubscribeFrame(symbol))

\* resubscribeToSymbols: subscribedSymbols.forEach(subscribeToSymbol)
RECURSIVE forEachSymbol(_, _)
forEachSymbol(w, todo) ==
    IF todo = {}
    THEN w
    ELSE LET symbol == CHOOSE s \in todo : TRUE
         IN  forEachSymbol(subscribeToSymbol(w, symbol), todo \ {symbol})

resubscribeToSymbols(w) == forEachSymbol(w, w.subscribedSymbols)

\* onopen that leaves the attempt counter as it is
onopen_NoReset(w) ==
    resubscribeToSymbols(startPingInterval([w EXCEPT !.isConnecting = FALSE]))

onopen(w) ==
    resubscribeToSymbols(
        startPingInterval([w EXCEPT !.isConnecting = FALSE, !.reconnectAttempts = 0]))

\* onclose that forgets to schedule the retry
onclose_NoRetry(w) ==
    stopPingInterval([w EXCEPT !.isConnecting = FALSE])

onclose(w) ==
    handleReconnect(stopPingInterval([w EXCEPT !.isConnecting = FALSE]))

\* onerror that schedules a retry of its own, before the close event does
onerror_Reconnects(w) == handleReconnect([w EXCEPT !.isConnecting = FALSE])

onerror(w) == [w EXCEPT !.isConnecting = FALSE]

\* subscribe: push the callback on the kind's array
subscribe(w, event, callback) ==
    [w EXCEPT !.callbacks[event] = Append(@, callback)]

\* the function subscribe() returns: splice out the first occurrence of the callback
unsubscribe(w, event, callback) ==
    LET index == indexOf(w.callbacks[event], callback)
    IN  IF index > 0
        THEN [w EXCEPT !.callbacks[event] = RemoveAt(@, index)]
        ELSE w

\* a callback runs: a self-removing one calls the function subscribe() returned
\* to it and a throwing one throws; the closures of subscribeToStockUpdates and
\* the others touch nothing of the service
invoke(w, event, callback) ==
    LET w1 == [w EXCEPT !.delivered = Append(@, callback)]
    IN  IF callback \in SelfRemoving THEN unsubscribe(w1, event, callback) ELSE w1

\* Array.prototype.forEach over the live array: the length is read once, an
\* index the array no longer has when its turn comes is passed over, and an
\* exception thrown by a callback ends the loop
RECURSIVE forEach(_, _, _, _)
forEach(w, event, k, len) ==
    IF k > len THEN w
    ELSE IF k > Len(w.callbacks[event]) THEN forEach(w, event, k + 1, len)
    ELSE LET callback == w.callbacks[event][k]
             w1 == invoke(w, event, callback)
         IN  IF callback \in Throwing THEN w1 ELSE forEach(w1, event, k + 1, len)

\* handleMessage: callbacks.get(message.type), then forEach
handleMessage(w, type) ==
    IF type \in Kinds
    THEN forEach(w, type, 1, Len(w.callbacks[type]))
    ELSE w

\* the delivery recorded in w ended with an exception: the loop stops at the
\* callback that throws, which is then the last one invoked
Threw(w) == w.delivered # <<>> /\ w.delivered[Len(w.delivered)] \in Throwing

\* the handler starts on a frame: the record of the last delivery is taken over
received(w, parsable, type) ==
    [w EXCEPT !.threwBefore = @ \/ Threw(w),
              !.delivered = <<>>,
              !.atReceipt = IF parsable /\ type \in Kinds THEN w.callbacks[type] ELSE <<>>]

\* onmessage without the try/catch: the SyntaxError of JSON.parse escapes
onmessage_NoCatch(w, parsable, type) ==
    LET w1 == received(w, parsable, type)
    IN  IF parsable
        THEN handleMessage([w1 EXCEPT !.lastFrame = type], type)
        ELSE [w1 EXCEPT !.lastFrame = "unparsable", !.thrown = TRUE]

\* onmessage with handleMessage outside the try block: the exception of a
\* listener escapes
onmessage_ListenerEscapes(w, parsable, type) ==
    LET w1 == received(w, parsable, type)
    IN  IF parsable
        THEN LET w2 == handleMessage([w1 EXCEPT !.lastFrame = type], type)
             IN  IF Threw(w2) THEN [w2 EXCEPT !.thrown = TRUE] ELSE w2
        ELSE [w1 EXCEPT !.lastFrame = "unparsable"]

\* onmessage: JSON.parse and handleMessage inside try, console.error in catch,
\* for the SyntaxError of the one and an exception out of the other alike
onmessage(w, parsable, type) ==
    LET w1 == received(w, parsable, type)
    IN  IF parsable
        THEN handleMessage([w1 EXCEPT !.lastFrame = type], type)
        ELSE [w1 EXCEPT !.lastFrame = "unparsable"]

\* subscribeToStockUpdates(symbol, cb): the filtering closure it registers is
\* named after the component that owns it
subscribeToStockUpdates(w, symbol, consumer) ==
    subscribe(subscribeToSymbol(w, symbol), "price_update", consumer)

\* the cleanup function subscribeToStockUpdates returns
stockUpdatesCleanup(w, symbol, consumer) ==
    unsubscribeFromSymbol(unsubscribe(w, "price_update", consumer), symbol)

\* disconnect: ws.close() on a socket that is not yet closed leaves it
\* CLOSING, with its close event still to come
disconnect(w) ==
    LET w1 == stopPingInterval(w)
        w2 == IF w1.ws # "null"
              THEN [w1 EXCEPT !.ws = "null",
                              !.others = IF w1.ws \in {"CONNECTING", "OPEN"}
                                         THEN Append(@, "CLOSING") ELSE @]
              ELSE w1
    IN  [w2 EXCEPT !.callbacks = [k \in Kinds |-> <<>>], !.subscribedSymbols = {}]

----------------------------------------------------------------------------
(* Sockets: 0 is the socket this.ws refers to, i > 0 is others[i] *)

SocketIds == 0..Len(others)
readyState(i) == IF i = 0 THEN ws ELSE others[i]

\* the socket has delivered its close event: nothing more comes from it
Closed(w, i) ==
    IF i = 0 THEN [w EXCEPT !.ws = "CLOSED"] ELSE [w EXCEPT !.others = RemoveAt(@, i)]

Opened(w, i) ==
    IF i = 0 THEN [w EXCEPT !.ws = "OPEN"] ELSE [w EXCEPT !.others[i] = "OPEN"]

----------------------------------------------------------------------------
(* Initial state: the module-level `new WebSocketService()` has run *)

Constructed ==
    [ws |-> "null", reconnectAttempts |-> 0, isConnecting |-> FALSE,
     callbacks |-> [k \in Kinds |-> <<>>], subscribedSymbols |-> {},
     pingInterval |-> FALSE, others |-> <<>>, wire |-> EmptyBag, unanswered |-> 0,
     timers |-> EmptyBag, intervals |-> EmptyBag, warned |-> FALSE, thrown |-> FALSE,
     lastFrame |-> "none", delivered |-> <<>>, atReceipt |-> <<>>, threwBefore |-> FALSE]

Init ==
    /\ \E throws \in BOOLEAN :
         LET w == connect(Constructed, throws)
         IN  /\ ws = w.ws
             /\ reconnectAttempts = w.reconnectAttempts
             /\ isConnecting = w.isConnecting
             /\ callbacks = w.callbacks
             /\ subscribedSymbols = w.subscribedSymbols
             /\ pingInterval = w.pingInterval
             /\ others = w.others
             /\ wire = w.wire
             /\ unanswered = w.unanswered
             /\ timers = w.timers
             /\ intervals = w.intervals
             /\ warned = w.warned
             /\ thrown = w.thrown
             /\ lastFrame = w.lastFrame
             /\ delivered = w.delivered
             /\ atReceipt = w.atReceipt
             /\ threwBefore = w.threwBefore
    /\ consumers = [c \in Consumers |-> "none"]
    /\ handles = <<>>
    /\ offline = {}
    /\ everOpen = FALSE
    /\ disconnected = FALSE
    /\ chart = "none"
    /\ chartSymbol = ""
    /\ chartTimeframe = ""
    /\ data = <<>>
    /\ loading = FALSE
    /\ error = "null"
    /\ chartInfo = "null"
    /\ intervalRef = FALSE
    /\ requests = <<>>
    /\ candlestickSeries = <<>>
    /\ ticks = <<>>
    /\ tickTime = 0
    /\ applied = <<"", "">>
    /\ outcome = "none"

----------------------------------------------------------------------------
(* Actions *)

\* the open event of a socket
SocketOpen(i) ==
    /\ readyState(i) = "CONNECTING"
    /\ Commit(onopen(Opened(World, i)))
    /\ everOpen' = TRUE
    /\ offline' = {}
    /\ UNCHANGED <<consumers, handles, disconnected>>

\* a clean close: the close event alone
SocketClose(i) ==
    /\ readyState(i) \in {"OPEN", "CLOSING"}
    /\ Commit(onclose(Closed(World, i)))
    /\ UNCHANGED <<consumers, handles, offline, everOpen, disconnected>>

\* a failed connection: the error event, then the close event, in one task
SocketFail(i) ==
    /\ readyState(i) \in {"CONNECTING", "OPEN", "CLOSING"}
    /\ Commit(onclose(onerror(Closed(World, i))))
    /\ UNCHANGED <<consumers, handles, offline, everOpen, disconnected>>

\* a reconnection timer fires: connect()
TimerFire(delay, throws) ==
    /\ BagIn(delay, timers)
    /\ Commit(connect([World EXCEPT !.timers = Remove(@, delay)], throws))
    /\ UNCHANGED <<consumers, handles, offline, everOpen, disconnected>>

\* the keepalive interval fires: send({type: 'ping'})
PingTick ==
    /\ BagIn(pingPeriod, intervals)
    /\ Commit(send(World, pingFrame))
    /\ UNCHANGED <<consumers, handles, offline, everOpen, disconnected>>

\* a pong frame arrives on the current socket: no callback is registered for it
RecvPong ==
    /\ ws = "OPEN"
    /\ unanswered > 0
    /\ Commit([World EXCEPT !.unanswered = 0])
    /\ UNCHANGED <<consumers, handles, offline, everOpen, disconnected>>

\* a frame arrives on an open socket: onmessage
Receive(i, parsable, type) ==
    /\ readyState(i) = "OPEN"
    /\ Commit(onmessage(World, parsable, type))
    /\ UNCHANGED <<consumers, handles, offline, everOpen, disconnected>>

\* a component mounts: subscribeToStockUpdates(symbol, cb)
Mount(c, symbol) ==
    /\ consumers[c] = "none"
    /\ Commit(subscribeToStockUpdates(World, symbol, c))
    /\ consumers' = [consumers EXCEPT ![c] = symbol]
    /\ offline' = IF symbol \notin subscribedSymbols /\ ws # "OPEN"
                  THEN offline \cup {symbol} ELSE offline
    /\ UNCHANGED <<handles, everOpen, disconnected>>

\* a component unmounts: the cleanup function of its subscription
Unmount(c) ==
    /\ consumers[c] # "none"
    /\ Commit(stockUpdatesCleanup(World, consumers[c], c))
    /\ consumers' = [consumers EXCEPT ![c] = "none"]
    /\ offline' = offline \ {consumers[c]}
    /\ UNCHANGED <<handles, everOpen, disconnected>>

Disconnect ==
    /\ Commit(disconnect(World))
    /\ offline' = {}
    /\ disconnected' = TRUE
    /\ UNCHANGED <<consumers, handles, everOpen>>

\* some code registers a listener: subscribe(event, callback)
Subscribe(event, callback) ==
    /\ Len(handles) < MaxHandles
    /\ Commit(subscribe(World, event, callback))
    /\ handles' = Append(handles, [event |-> event, callback |-> callback, calls |-> 0])
    /\ UNCHANGED <<consumers, offline, everOpen, disconnected>>

\* the i-th function returned by subscribe() is called
CallUnsubscribe(i) ==
    /\ handles[i].calls < MaxCalls
    /\ Commit(unsubscribe(World, handles[i].event, handles[i].callback))
    /\ handles' = [handles EXCEPT ![i].calls = @ + 1]
    /\ UNCHANGED <<consumers, offline, everOpen, disconnected>>

Next ==
    \/ \E i \in SocketIds : SocketOpen(i)
    \/ \E i \in SocketIds : SocketClose(i)
    \/ \E i \in SocketIds : SocketFail(i)
    \/ \E delay \in BagToSet(timers), throws \in BOOLEAN : TimerFire(delay, throws)
    \/ PingTick
    \/ RecvPong
    \/ \E c \in Consumers, symbol \in Symbols : Mount(c, symbol)
    \/ \E c \in Consumers : Unmount(c)
    \/ Disconnect

Spec == Init /\ [][Next]_vars

\* the listener table under registration, removal and disconnect()
NextListeners ==
    \/ \E event \in Kinds, callback \in Listeners : Subscribe(event, callback)
    \/ \E i \in 1..Len(handles) : CallUnsubscribe(i)
    \/ \E c \in Consumers, symbol \in Symbols : Mount(c, symbol)
    \/ \E c \in Consumers : Unmount(c)
    \/ Disconnect

SpecListeners == Init /\ [][NextListeners]_vars

\* the listener table under registration and the frames of an open socket, with
\* components mounted along the way; the removals are those the listeners make
NextDispatch ==
    \/ \E event \in Kinds, callback \in Listeners : Subscribe(event, callback)
    \/ \E c \in Consumers, symbol \in Symbols : Mount(c, symbol)
    \/ \E i \in SocketIds : SocketOpen(i)
    \/ \E i \in SocketIds, parsable \in BOOLEAN, type \in Kinds : Receive(i, parsable, type)

SpecDispatch == Init /\ [][NextDispatch]_vars

\* a pending setTimeout callback is eventually run by the event loop
FairSpec == Spec /\ WF_vars(\E delay \in BagToSet(timers), throws \in BOOLEAN : TimerFire(delay, throws))

----------------------------------------------------------------------------
(* The Chart component and its useChartData hook.  The calls the component  *)
(* makes into the WebSocketService are the Mount and Unmount actions above; *)
(* here the callback it registered is taken as invoked with a payload of    *)
(* its symbol, and a state update is taken together with the effects React  *)
(* runs after it.                                                           *)

\* the timeframe the chart is shown in: the default of useChartData
Timeframes == {"1m"}

\* seconds per bar of a timeframe
period(tf) == IF tf = "1m" THEN 60 ELSE 300

Prices == {100, 103, 105}
TickTimes == {0, 30, 61}

Candle(t, o, h, l, c, v) ==
    [time |-> t, open |-> o, high |-> h, low |-> l, close |-> c, volume |-> v]

\* the bars the server answers with: for the first bar a fuller and a staler
\* view and one with its open above its high, then the bar after it
FirstBars == {Candle(0, 100, 105, 100, 105, 800),
              Candle(0, 100, 103, 100, 103, 500),
              Candle(0, 105, 103, 100, 100, 500)}
NextBars(tf) == {Candle(period(tf), 103, 103, 103, 103, 500)}

\* response.data for a request of timeframe tf
Snapshots(tf) ==
    {<<>>} \cup {<<a>> : a \in FirstBars}
           \cup {<<a, b>> : a \in FirstBars, b \in NextBars(tf)}

\* a response: without data, or with a data array
Responses(tf) ==
    {[hasData |-> FALSE, data |-> <<>>]}
        \cup {[hasData |-> TRUE, data |-> d] : d \in Snapshots(tf)}

Max(a, b) == IF a >= b THEN a ELSE b
Min(a, b) == IF a <= b THEN a ELSE b
Last(s) == s[Len(s)]

\* data.map(item => ({time, open, high, low, close}))
candlestickData(d) ==
    [i \in DOMAIN d |-> [time |-> d[i].time, open |-> d[i].open, high |-> d[i].high,
                         low |-> d[i].low, close |-> d[i].close]]

\* the effect on [data]: setData on the series unless data is empty
setDataEffect(series, d) == IF d = <<>> THEN series ELSE candlestickData(d)

\* the candle the listener builds from the last candle of the data state
updatedCandle(lastCandle, price) ==
    [time |-> lastCandle.time, open |-> lastCandle.open,
     high |-> Max(lastCandle.high, price), low |-> Min(lastCandle.low, price),
     close |-> price]

\* ISeriesApi.update: replace the last bar when the time is the same, append
\* when it is later; an earlier time is refused with an exception
update(series, bar) ==
    IF series = <<>> \/ bar.time > Last(series).time THEN Append(series, bar)
    ELSE IF bar.time = Last(series).time THEN [series EXCEPT ![Len(series)] = bar]
    ELSE series

\* fetchData up to its await: abort() on the controller of the call before,
\* a new controller, and the request, to which the signal is not passed
issue(reqs, sym, tf, isRefresh) ==
    Append([i \in DOMAIN reqs |-> [reqs[i] EXCEPT !.aborted = TRUE]],
           [symbol |-> sym, timeframe |-> tf, isRefresh |-> isRefresh, aborted |-> FALSE])

\* the catch block of fetchData: the held series is emptied unless the call was
\* a refresh
catchData_Always(d, isRefresh) == <<>>

catchData(d, isRefresh) == IF isRefresh THEN d ELSE <<>>

\* the Chart's effect on [symbol, data] runs: subscribeToStockUpdates(symbol, cb)
EffectRuns(sym) ==
    /\ CommitService(subscribeToStockUpdates(World, sym, "chart"))
    /\ consumers' = [consumers EXCEPT !["chart"] = sym]
    /\ offline' = IF sym \notin subscribedSymbols /\ ws # "OPEN"
                  THEN offline \cup {sym} ELSE offline
    /\ UNCHANGED <<handles, everOpen, disconnected>>

\* the symbol or the data state has changed: the cleanup of the effect's last
\* run, then the effect again
EffectRunsAgain(old, sym) ==
    /\ CommitService(subscribeToStockUpdates(stockUpdatesCleanup(World, old, "chart"), sym, "chart"))
    /\ consumers' = [consumers EXCEPT !["chart"] = sym]
    /\ offline' = IF sym \notin (subscribedSymbols \ {old}) /\ ws # "OPEN"
                  THEN (offline \ {old}) \cup {sym} ELSE offline \ {old}
    /\ UNCHANGED <<handles, everOpen, disconnected>>

\* the cleanup of the effect's last run, alone
EffectCleanup(old) ==
    /\ CommitService(stockUpdatesCleanup(World, old, "chart"))
    /\ consumers' = [consumers EXCEPT !["chart"] = "none"]
    /\ offline' = offline \ {old}
    /\ UNCHANGED <<handles, everOpen, disconnected>>

\* the component mounts: the chart is created, the initial fetch is issued, the
\* refresh interval is set and the effect on [symbol, data] subscribes
ChartMount(sym, tf) ==
    /\ chart = "none"
    /\ consumers["chart"] = "none"
    /\ chart' = "mounted"
    /\ chartSymbol' = sym
    /\ chartTimeframe' = tf
    /\ requests' = issue(requests, sym, tf, FALSE)
    /\ loading' = TRUE
    /\ error' = "null"
    /\ intervalRef' = TRUE
    /\ UNCHANGED <<data, chartInfo, candlestickSeries, ticks, tickTime, applied, outcome>>
    /\ EffectRuns(sym)

\* the symbol prop changes: the chart is removed and created again, empty; the
\* initial-fetch effect runs fetchData(), the interval is set anew and the
\* effect on [symbol, data] subscribes to the new symbol
SymbolChange(sym) ==
    /\ chart = "mounted"
    /\ sym # chartSymbol
    /\ Len(requests) < MaxRequests
    /\ chartSymbol' = sym
    /\ candlestickSeries' = <<>>
    /\ ticks' = <<>>
    /\ tickTime' = 0
    /\ requests' = issue(requests, sym, chartTimeframe, FALSE)
    /\ loading' = TRUE
    /\ error' = "null"
    /\ UNCHANGED <<chart, chartTimeframe, data, chartInfo, intervalRef, applied, outcome>>
    /\ EffectRunsAgain(chartSymbol, sym)

\* the refresh interval fires: fetchData(true)
PollTick ==
    /\ intervalRef
    /\ Len(requests) < MaxRequests
    /\ requests' = issue(requests, chartSymbol, chartTimeframe, TRUE)
    /\ error' = "null"
    /\ UNCHANGED <<chart, chartSymbol, chartTimeframe, data, loading, chartInfo, intervalRef,
                   candlestickSeries, ticks, tickTime, applied, outcome>>
    /\ UNCHANGED serviceVars

\* the request of the i-th call is answered: the rest of the try block and the
\* finally block; the new data state makes the effect on [symbol, data] run
\* again; the setters of an unmounted component do nothing
Resolve(i, response) ==
    /\ i \in DOMAIN requests
    /\ response \in Responses(requests[i].timeframe)
    /\ requests' = RemoveAt(requests, i)
    /\ outcome' = "resolved"
    /\ IF chart = "mounted"
       THEN /\ data' = response.data
            /\ chartInfo' = IF response.hasData THEN "server" ELSE "no_data"
            /\ loading' = IF requests[i].isRefresh THEN loading ELSE FALSE
            /\ candlestickSeries' = setDataEffect(candlestickSeries, response.data)
            /\ ticks' = <<>>
            /\ tickTime' = 0
            /\ applied' = <<requests[i].symbol, requests[i].timeframe>>
            /\ EffectRunsAgain(chartSymbol, chartSymbol)
       ELSE /\ UNCHANGED <<data, chartInfo, loading, candlestickSeries, ticks, tickTime, applied>>
            /\ UNCHANGED serviceVars
    /\ UNCHANGED <<chart, chartSymbol, chartTimeframe, error, intervalRef>>

\* the request of the i-th call fails or times out: the catch block and the
\* finally block; setData([]) gives a new data state, so the effect on
\* [symbol, data] runs again
Fail(i) ==
    /\ i \in DOMAIN requests
    /\ requests' = RemoveAt(requests, i)
    /\ outcome' = IF requests[i].isRefresh THEN "refresh_failed" ELSE "failed"
    /\ IF chart = "mounted"
       THEN /\ error' = "Failed to fetch chart data"
            /\ data' = catchData(data, requests[i].isRefresh)
            /\ loading' = IF requests[i].isRefresh THEN loading ELSE FALSE
            /\ ticks' = IF requests[i].isRefresh THEN ticks ELSE <<>>
            /\ tickTime' = IF requests[i].isRefresh THEN tickTime ELSE 0
            /\ IF requests[i].isRefresh
               THEN UNCHANGED serviceVars
               ELSE EffectRunsAgain(chartSymbol, chartSymbol)
       ELSE /\ UNCHANGED <<error, data, loading, ticks, tickTime>>
            /\ UNCHANGED serviceVars
    /\ UNCHANGED <<chart, chartSymbol, chartTimeframe, chartInfo, intervalRef,
                   candlestickSeries, applied>>

\* the listener the Chart registered is invoked with a price of its symbol: the
\* candle it builds goes to the series; the volume branch is never taken,
\* volumeSeriesRef being null, and the timestamp of the payload is not read
Tick(price, time) ==
    /\ chart = "mounted"
    /\ Len(ticks) < MaxTicks
    /\ candlestickSeries' = IF data # <<>>
                            THEN update(candlestickSeries, updatedCandle(Last(data), price))
                            ELSE candlestickSeries
    /\ ticks' = Append(ticks, price)
    /\ tickTime' = time
    /\ UNCHANGED <<chart, chartSymbol, chartTimeframe, data, loading, error, chartInfo,
                   intervalRef, requests, applied, outcome>>
    /\ UNCHANGED serviceVars

\* the component unmounts: clearInterval, abort(), chart.remove() and the
\* cleanup of the effect on [symbol, data]
ChartUnmount ==
    /\ chart = "mounted"
    /\ chart' = "unmounted"
    /\ intervalRef' = FALSE
    /\ requests' = [i \in DOMAIN requests |-> [requests[i] EXCEPT !.aborted = TRUE]]
    /\ candlestickSeries' = <<>>
    /\ ticks' = <<>>
    /\ tickTime' = 0
    /\ UNCHANGED <<chartSymbol, chartTimeframe, data, loading, error, chartInfo, applied, outcome>>
    /\ EffectCleanup(chartSymbol)

NextChart ==
    \/ \E sym \in Symbols, tf \in Timeframes : ChartMount(sym, tf)
    \/ \E sym \in Symbols : SymbolChange(sym)
    \/ PollTick
    \/ \E i \in DOMAIN requests : \E response \in Responses(requests[i].timeframe) : Resolve(i, response)
    \/ \E i \in DOMAIN requests : Fail(i)
    \/ \E price \in Prices, time \in TickTimes : Tick(price, time)
    \/ ChartUnmount

SpecChart == Init /\ [][NextChart]_vars

----------------------------------------------------------------------------
(* Steps named by what they change *)

\* the socket this.ws refers to delivers its open event
OpensNow == ws = "CONNECTING" /\ ws' = "OPEN"

\* the socket this.ws refers to delivers its close event
ClosesNow == ws \in {"CONNECTING", "OPEN"} /\ ws' = "CLOSED"

\* a reconnection timer is set in this step
TimerSet == \E d \in BagToSet(timers') : CopiesIn(d, timers') > CopiesIn(d, timers)

\* `new WebSocket` succeeds in this step
SocketCreated == ws # "CONNECTING" /\ ws' = "CONNECTING"

\* component c runs the cleanup function of its subscription
Unmounts(c) == consumers[c] # "none" /\ consumers'[c] = "none"

----------------------------------------------------------------------------
(* C1: when the connection opens again after an earlier one was open, the new
   socket carries exactly one subscribe frame for every symbol subscribed at
   that moment, and none for any other symbol. *)
C1_ReplayExactlyOnce ==
    [][(everOpen /\ OpensNow) =>
         \A s \in Symbols :
            CopiesIn(subscribeFrame(s), wire') = IF s \in subscribedSymbols' THEN 1 ELSE 0]_vars

(* C2: subscriptions are counted per symbol.  When a component releases a
   subscribed symbol that another component still holds, the symbol stays
   subscribed and no unsubscribe frame is sent; when the last holder releases
   it, the symbol is removed and, on an open socket, the unsubscribe frame is
   sent. *)
C2_RefCounted ==
    [][\A c \in Consumers :
         (Unmounts(c) /\ consumers[c] \in subscribedSymbols) =>
            LET s == consumers[c]
                sent == CopiesIn(unsubscribeFrame(s), wire') - CopiesIn(unsubscribeFrame(s), wire)
            IN  IF \E d \in Consumers \ {c} : consumers[d] = s
                THEN s \in subscribedSymbols' /\ sent = 0
                ELSE s \notin subscribedSymbols' /\ (ws = "OPEN" => sent = 1)]_vars

(* C3: a symbol subscribed while the socket was not open, and still
   subscribed when the socket opens, has a subscribe frame on that socket. *)
C3_OfflineSubscribeSent ==
    [][(ws # "OPEN" /\ ws' = "OPEN") =>
         \A s \in offline \cap subscribedSymbols' :
            CopiesIn(subscribeFrame(s), wire') >= 1]_vars

(* C4: after disconnect() no reconnection timer is set and no socket is
   created, whatever events the old socket still delivers. *)
C4_DisconnectTerminal ==
    [][disconnected => ~TimerSet /\ ~SocketCreated]_vars

\* the delays the backoff is expected to produce, by attempt
Backoff == <<1000, 2000, 4000, 8000, 16000>>

(* C5: the k-th consecutive failure, k = 1..5, schedules the retry with delay
   1000, 2000, 4000, 8000, 16000 ms; every timer that is set is one of these,
   set as the attempt counter goes up by one; after the 5th attempt has
   failed nothing is scheduled. *)
C5_BackoffSchedule ==
    /\ [][\A d \in BagToSet(timers') :
            CopiesIn(d, timers') > CopiesIn(d, timers) =>
               /\ reconnectAttempts' = reconnectAttempts + 1
               /\ reconnectAttempts' \in 1..Len(Backoff)
               /\ d = Backoff[reconnectAttempts']]_vars
    /\ [][ClosesNow =>
            timers' = IF reconnectAttempts < Len(Backoff)
                      THEN Add(timers, Backoff[reconnectAttempts + 1])
                      ELSE timers]_vars

\* the 5th attempt has failed and nothing is scheduled
C5_Witness ==
    /\ ws = "CLOSED" /\ ~isConnecting
    /\ reconnectAttempts = 5
    /\ timers = EmptyBag

(* C6: when the socket in use closes or fails while connected or connecting
   and the attempt cap is not reached, the keepalive interval is stopped and a
   retry timer is set; and whenever a retry timer is pending with no attempt
   under way, connect() eventually starts one. *)
C6_CloseSchedulesRetry ==
    /\ [][(ClosesNow /\ reconnectAttempts < maxReconnectAttempts) =>
            /\ ~pingInterval' /\ intervals' = EmptyBag
            /\ TimerSet]_vars
    /\ ((timers # EmptyBag /\ ~isConnecting) ~> isConnecting)

\* an open connection was lost and its retry is pending
C6_Witness ==
    /\ everOpen /\ ws = "CLOSED"
    /\ ~pingInterval
    /\ timers # EmptyBag /\ ~isConnecting

(* C7: while the socket is open one keepalive interval of 30 s is running, and
   a ping still unanswered when the next one is due means the connection has
   been treated as lost: an open socket never has two pings outstanding. *)
C7_PongTimeout ==
    ws = "OPEN" => intervals = SetToBag({30000}) /\ unanswered <= 1

\* every attempt is used up and nothing is pending
Exhausted ==
    /\ reconnectAttempts = maxReconnectAttempts
    /\ timers = EmptyBag /\ others = <<>>
    /\ ws \in {"CLOSED", "null"} /\ ~isConnecting

(* C8: once the attempts are used up and nothing is pending, the service can
   still be made to start a connection attempt. *)
C8_ManualReconnect ==
    Exhausted => ENABLED (Next /\ isConnecting')

(* C9: send() on a socket that is not open transmits nothing and throws
   nothing, and nothing it dropped is transmitted later: a step that starts
   with the socket not open, the opening of the socket included, puts no frame
   on the wire, and a step on an open socket puts at most the one frame it
   sends. *)
C9_SendWhileNotOpen ==
    /\ [] ~thrown
    /\ [][IF ws # "OPEN"
          THEN wire' \sqsubseteq wire
          ELSE BagCardinality(wire') <= BagCardinality(wire) + 1]_vars

\* a frame was refused while this socket was connecting; the socket has
\* opened since and has transmitted nothing
C9_Witness ==
    warned /\ ws = "OPEN" /\ wire = EmptyBag

\* the i-th function returned by subscribe() is called in this step
Calls(i) == i <= Len(handles') /\ handles'[i].calls = handles[i].calls + 1

(* C10: the function subscribe() returned removes exactly its own
   registration.  Its first call leaves the other kinds alone and takes one
   entry for its callback, if there is one, out of its kind's array; any later
   call changes nothing. *)
C10_UnsubscribeExact ==
    [][\A i \in 1..Len(handles) :
         Calls(i) =>
            LET e == handles[i].event
                f == handles[i].callback
            IN  IF handles[i].calls = 0
                THEN /\ \A k \in Kinds \ {e} : callbacks'[k] = callbacks[k]
                     /\ IF \E j \in 1..Len(callbacks[e]) : callbacks[e][j] = f
                        THEN \E j \in 1..Len(callbacks[e]) :
                                callbacks[e][j] = f /\ callbacks'[e] = RemoveAt(callbacks[e], j)
                        ELSE callbacks'[e] = callbacks[e]
                ELSE callbacks' = callbacks]_vars

----------------------------------------------------------------------------
(* Dispatch of inbound frames *)

\* C11: when a frame of some kind is received, every callback registered for
\* that kind at that moment is invoked exactly once, in registration order,
\* within the handling of that frame, also when a listener calls its own
\* unsubscribe function during delivery: the callbacks invoked for the last
\* frame are the callbacks registered when it arrived.
C11_DeliveredAllInOrder == delivered = atReceipt

\* an unparsable frame is handled in this step
GarbageNow == lastFrame # "unparsable" /\ lastFrame' = "unparsable"

\* the first frame that parses after an unparsable one is handled in this step
FrameAfterGarbage == lastFrame = "unparsable" /\ lastFrame' \in Kinds

NoSelfRemoving(s) == \A i \in 1..Len(s) : s[i] \notin SelfRemoving
NoThrowing(s) == \A i \in 1..Len(s) : s[i] \notin Throwing

\* C12: an inbound frame that cannot be parsed is dropped: no listener is
\* invoked for it, no exception escapes, the listener table, the subscription
\* set and the connection state stay as they were, and the next frame that
\* parses is dispatched as any frame is: to the listeners registered for its
\* kind, from the first one on, and to all of them in order when none of them
\* removes itself or throws.
C12_UnparsableDropped ==
    [][/\ GarbageNow =>
            /\ delivered' = <<>>
            /\ thrown' = thrown
            /\ UNCHANGED <<callbacks, subscribedSymbols, ws, others, isConnecting,
                           reconnectAttempts, pingInterval, timers, intervals, wire>>
       /\ FrameAfterGarbage =>
            /\ atReceipt' = callbacks[lastFrame']
            /\ (NoSelfRemoving(atReceipt') /\ NoThrowing(atReceipt')) =>
                  delivered' = atReceipt'
            /\ atReceipt' # <<>> =>
                  delivered' # <<>> /\ Head(delivered') = Head(atReceipt')]_vars

\* a frame was dispatched to two listeners after an unparsable frame had been
\* dropped on the same socket
C12_Witness ==
    /\ ws = "OPEN"
    /\ lastFrame = "unparsable"
    /\ subscribedSymbols # {}
    /\ \E k \in Kinds : Len(callbacks[k]) = 2

\* the last frame went to the listeners registered for its kind: to the first
\* one at least, and to all of them in order when none removes itself or throws
DispatchedNormally ==
    /\ atReceipt # <<>> => delivered # <<>> /\ Head(delivered) = Head(atReceipt)
    /\ (NoSelfRemoving(atReceipt) /\ NoThrowing(atReceipt)) => delivered = atReceipt

\* C26: an exception thrown by a listener while a frame is being delivered
\* never escapes the message handler, and the frames received after it are
\* dispatched to the registered listeners.
C26_ListenerExceptionContained ==
    /\ ~thrown
    /\ (threwBefore /\ lastFrame \in Kinds) => DispatchedNormally

\* after a frame during whose delivery a listener threw, a frame has gone to
\* two listeners
C26_Witness ==
    /\ threwBefore
    /\ lastFrame \in Kinds
    /\ Len(delivered) = 2
    /\ ~Threw(World)

----------------------------------------------------------------------------
(* The working candle of the chart *)

\* the candle invariant: low <= min(open, close) and high >= max(open, close)
WellFormed(c) == c.low <= Min(c.open, c.close) /\ c.high >= Max(c.open, c.close)

\* ticks have been applied to the last candle of the held series
Absorbed == ticks # <<>> /\ data # <<>>

\* the listener handles a tick in this step
TickNow == Len(ticks') = Len(ticks) + 1

MaxOf(S) == CHOOSE x \in S : \A y \in S : x >= y
MinOf(S) == CHOOSE x \in S : \A y \in S : x <= y
Range(q) == {q[i] : i \in DOMAIN q}

\* a timestamp floor-aligned to the timeframe of the chart
Aligned(t) == (t \div period(chartTimeframe)) * period(chartTimeframe)

\* C13: after any sequence of live ticks applied to the working candle, the
\* candle shown satisfies low <= min(open, close) and high >= max(open, close).
C13_CandleInvariant == Absorbed => WellFormed(Last(candlestickSeries))

\* C14: ticks falling in the open candle accumulate: after ticks with prices
\* p1..pn, its high is the maximum of the high it had before and p1..pn, its
\* low the minimum of the low it had before and p1..pn, and its close is pn.
C14_TicksAccumulate ==
    Absorbed =>
        LET shown == Last(candlestickSeries)
            before == Last(data)
        IN  /\ shown.high = MaxOf({before.high} \cup Range(ticks))
            /\ shown.low = MinOf({before.low} \cup Range(ticks))
            /\ shown.close = Last(ticks)

\* C15: a tick whose timestamp, floor-aligned to the timeframe, is later than
\* the open time of the last candle, or that arrives when there is no candle,
\* leaves the candles there were and appends a new candle at the new boundary
\* with open = high = low = close = the price of the tick.
C15_TickOpensCandle ==
    [][(/\ TickNow
        /\ \/ candlestickSeries = <<>>
           \/ Aligned(tickTime') > Last(candlestickSeries).time)
       => candlestickSeries' =
             Append(candlestickSeries,
                    [time |-> Aligned(tickTime'), open |-> Last(ticks'),
                     high |-> Last(ticks'), low |-> Last(ticks'),
                     close |-> Last(ticks')])]_vars

\* C16: a tick whose timestamp is earlier than the open time of the last
\* candle is dropped: the series is the same after it as before.
C16_StaleTickDropped ==
    [][(/\ TickNow
        /\ candlestickSeries # <<>>
        /\ tickTime' < Last(candlestickSeries).time)
       => candlestickSeries' = candlestickSeries]_vars

----------------------------------------------------------------------------
(* Snapshots *)

\* the i-th fetchData call settles in this step
Settles(i) == i \in DOMAIN requests /\ requests' = RemoveAt(requests, i)

\* the i-th call asked for what the chart shows and what the held series is of
ForShown(i) ==
    /\ requests[i].symbol = chartSymbol
    /\ requests[i].timeframe = chartTimeframe
    /\ applied = <<chartSymbol, chartTimeframe>>

\* C17: applying a snapshot never overwrites the high, low or close of the
\* open candle: when ticks have been absorbed into the last candle shown, a
\* snapshot asked for the same symbol and timeframe leaves the candle of that
\* open time with the high, low and close it had.
C17_SnapshotKeepsOpenCandle ==
    [][\A i \in DOMAIN requests :
          (Settles(i) /\ ForShown(i) /\ Absorbed) =>
              \A k \in DOMAIN candlestickSeries' :
                  candlestickSeries'[k].time = Last(candlestickSeries).time =>
                      /\ candlestickSeries'[k].high = Last(candlestickSeries).high
                      /\ candlestickSeries'[k].low = Last(candlestickSeries).low
                      /\ candlestickSeries'[k].close = Last(candlestickSeries).close]_vars

\* C18: merging a snapshot never decreases the volume of a candle: a candle
\* of the held series that the snapshot of the same symbol and timeframe also
\* reports keeps at least the volume it had.
C18_VolumeNeverDecreases ==
    [][\A i \in DOMAIN requests :
          (Settles(i) /\ ForShown(i)) =>
              \A j \in DOMAIN data, k \in DOMAIN data' :
                  data'[k].time = data[j].time => data'[k].volume >= data[j].volume]_vars

\* C19: snapshot polling is single-flight per (symbol, timeframe): at no time
\* are two requests for the same symbol and timeframe outstanding.
C19_SingleFlight ==
    \A i, j \in DOMAIN requests :
        i # j => <<requests[i].symbol, requests[i].timeframe>>
                    # <<requests[j].symbol, requests[j].timeframe>>

\* C20: a superseded fetch never applies its result: when a call whose
\* controller has been aborted (a later call was made, the symbol or the
\* timeframe changed, or the component unmounted) settles, the held series,
\* the series shown and the chart info are left as they were.
C20_SupersededNeverApplies ==
    [][\A i \in DOMAIN requests :
          (Settles(i) /\ requests[i].aborted) =>
              UNCHANGED <<data, candlestickSeries, chartInfo>>]_vars

----------------------------------------------------------------------------
(* The connection: counters and timers *)

\* C22: each time the connection reaches the connected state the attempt
\* counter is 0, and it is 0 as long as the socket is open, so the first retry
\* after a later loss is attempt 1, scheduled with the base delay.
C22_CounterResetOnOpen ==
    /\ [](ws = "OPEN" => reconnectAttempts = 0)
    /\ [][OpensNow => reconnectAttempts' = 0]_vars
    /\ [][(ws = "OPEN" /\ ClosesNow) =>
             /\ reconnectAttempts' = 1
             /\ timers' = Add(timers, reconnectDelay)]_vars

\* the connection was lost, retried with a longer delay, opened again and was
\* lost again: the retry pending is the first one, with the base delay
C22_Witness ==
    /\ everOpen
    /\ ws = "CLOSED"
    /\ reconnectAttempts = 1
    /\ timers = SetToBag({reconnectDelay})
    /\ unanswered = 0
    /\ subscribedSymbols # {}

\* disconnect() is called for the first time in this step
DisconnectsNow == ~disconnected /\ disconnected'

\* C23: disconnect() called in any state leaves the service with no keepalive
\* timer, no pending reconnection timer and the attempt counter at 0.
C23_DisconnectClearsAll ==
    [][DisconnectsNow =>
          /\ intervals' = EmptyBag
          /\ timers' = EmptyBag
          /\ reconnectAttempts' = 0]_vars

\* a reconnection timer fires in this step
TimerFires == \E d \in BagToSet(timers) : CopiesIn(d, timers') < CopiesIn(d, timers)

\* C27: when a reconnection timer fires and no socket is connecting or open,
\* connect() makes a real attempt: a socket is created, or, the constructor
\* throwing again, the next retry is scheduled or the budget is used up.
C27_RetryIsRealAttempt ==
    [][(TimerFires /\ ws \notin {"CONNECTING", "OPEN"}) =>
          \/ ws' = "CONNECTING"
          \/ TimerSet
          \/ reconnectAttempts >= maxReconnectAttempts]_vars

\* the sockets that are connecting or open, this.ws among them
Live ==
    {i \in SocketIds : readyState(i) \in {"CONNECTING", "OPEN"}}

\* C28: in every reachable state at most one socket is connecting or open and
\* at most one reconnection timer is pending.
C28_OneChannelOneTimer ==
    /\ Cardinality(Live) <= 1
    /\ BagCardinality(timers) <= 1

\* after disconnect() and the close event of the socket it closed, the retry
\* has fired and its socket is the one live channel, with no timer pending
C28_Witness ==
    /\ disconnected
    /\ ws = "CONNECTING"
    /\ reconnectAttempts > 0
    /\ others = <<>>
    /\ timers = EmptyBag

\* C29: the attempt counter lies between 0 and maxReconnectAttempts, and it
\* only increases, by one, in a step that sets a reconnection timer.
C29_CounterInRange ==
    /\ [](reconnectAttempts \in 0..maxReconnectAttempts)
    /\ [][reconnectAttempts' > reconnectAttempts =>
             /\ reconnectAttempts' = reconnectAttempts + 1
             /\ TimerSet]_vars

\* the budget is used up
C29_Witness == reconnectAttempts = maxReconnectAttempts /\ timers = EmptyBag

\* C30: at most one keepalive timer exists at any time; none is active once
\* the close event has been handled or disconnect() has run, until the next
\* open: a keepalive timer exists only while the socket is open.
C30_OnePingTimer ==
    /\ [](BagCardinality(intervals) <= 1)
    /\ [](intervals # EmptyBag => ws = "OPEN")
    /\ [][(ClosesNow \/ DisconnectsNow) => intervals' = EmptyBag]_vars

\* the socket is open for the second time at least, with its one keepalive timer
C30_Witness ==
    /\ ws = "OPEN"
    /\ intervals = SetToBag({pingPeriod})
    /\ unanswered > 0
    /\ disconnected

(* C24: a snapshot candle that violates the candle invariant never becomes
   part of the held series: every candle of the data state is well formed. *)
C24_SnapshotCandlesValid == \A k \in DOMAIN data : WellFormed(data[k])

(* The chart and the socket together: the page that shows a Chart while the
   wsService connects, loses its connection, retries and is disconnected. *)
NextDomains ==
    \/ \E sym \in Symbols, tf \in Timeframes : ChartMount(sym, tf)
    \/ PollTick
    \/ \E i \in DOMAIN requests : \E response \in Responses(requests[i].timeframe) : Resolve(i, response)
    \/ \E i \in DOMAIN requests : Fail(i)
    \/ ChartUnmount
    \/ \E i \in SocketIds : SocketOpen(i)
    \/ \E i \in SocketIds : SocketClose(i)
    \/ \E i \in SocketIds : SocketFail(i)
    \/ \E delay \in BagToSet(timers), throws \in BOOLEAN : TimerFire(delay, throws)
    \/ Disconnect

SpecDomains == Init /\ [][NextDomains]_vars

(* The hook alone: a mounted Chart polls its snapshots. *)
NextPolling ==
    \/ \E sym \in Symbols, tf \in Timeframes : ChartMount(sym, tf)
    \/ PollTick
    \/ \E i \in DOMAIN requests : \E response \in Responses(requests[i].timeframe) : Resolve(i, response)
    \/ \E i \in DOMAIN requests : Fail(i)
    \/ ChartUnmount

SpecPolling == Init /\ [][NextPolling]_vars

\* a fetchData(true) call fails or times out in this step
RefreshFails ==
    /\ \E i \in DOMAIN requests : Settles(i) /\ requests[i].isRefresh
    /\ outcome' = "refresh_failed"

\* a fetchData call fails or times out in this step
FetchFails ==
    /\ \E i \in DOMAIN requests : Settles(i)
    /\ outcome' \in {"failed", "refresh_failed"}

\* the refresh interval fires in this step
Polls ==
    /\ Len(requests') = Len(requests) + 1
    /\ chart' = chart
    /\ chartSymbol' = chartSymbol

(* C21: a refresh that fails or times out is reported as an error and nothing
   more: the held series and the bars of the chart stay as they were and the
   refresh interval stays set; while the component is mounted the interval is
   live, and the tick that follows a failed refresh issues a refresh request
   for the symbol and timeframe on display. *)
C21_RefreshFailureRecoverable ==
    /\ [][RefreshFails =>
             /\ data' = data
             /\ candlestickSeries' = candlestickSeries
             /\ intervalRef' = intervalRef
             /\ chart = "mounted" => error' # "null"]_vars
    /\ [](chart = "mounted" => intervalRef)
    /\ []((outcome = "refresh_failed" /\ chart = "mounted" /\ Len(requests) < MaxRequests)
             => ENABLED PollTick)
    /\ [][(outcome = "refresh_failed" /\ Polls) =>
             Last(requests') = [symbol |-> chartSymbol, timeframe |-> chartTimeframe,
                                isRefresh |-> TRUE, aborted |-> FALSE]]_vars

\* a refresh has failed while a series was held, and the tick after it has
\* issued its request
C21_Witness ==
    /\ outcome = "refresh_failed"
    /\ chart = "mounted"
    /\ data # <<>>
    /\ candlestickSeries # <<>>
    /\ error = "null"
    /\ intervalRef
    /\ requests # <<>>
    /\ Last(requests).isRefresh

(* C25: the two domains are independent: a fetchData call that fails or times
   out changes neither the state of the connection nor the attempt counter nor
   the set of subscribed symbols, and a step in which the socket closes or the
   attempts run out leaves the refresh interval and the calls in flight as
   they were. *)
C25_DomainsIndependent ==
    /\ [][FetchFails =>
             /\ ws' = ws
             /\ isConnecting' = isConnecting
             /\ reconnectAttempts' = reconnectAttempts
             /\ subscribedSymbols' = subscribedSymbols]_vars
    /\ [][(ClosesNow \/ (~Exhausted /\ Exhausted')) =>
             /\ intervalRef' = intervalRef
             /\ requests' = requests]_vars

====
